---------------------------- MODULE Spec2Model ----------------------------
(***************************************************************************)
(* A model of the Cinepak (CVID) decoder of lc-3-2/video-demo, built with  *)
(* DECODER_VALIDATE (strict mode).  The decoder is a pull-based state      *)
(* machine: decoder_initialize binds an input, then the caller alternates  *)
(* decoder_has_next_frame and decoder_compute_frame.                       *)
(*                                                                         *)
(* Memory.  decoder_t holds strips[32] followed by framebuffer[320*240];   *)
(* every field of both is a uint16_t, so the two arrays form one run of    *)
(* 16-bit words without padding.  The model keeps each array as a sparse   *)
(* map from word offset to value (a word that is absent holds 0), and a    *)
(* store through a pointer is made at its flat word address, so that a     *)
(* store past the end of a codebook table lands where the layout puts it.  *)
(*                                                                         *)
(* Undefined behaviour.  A store that misses the array it is aimed at but  *)
(* stays inside decoder_t lands at its flat address.  What a store past    *)
(* the end of decoder_t does depends on the memory around the object,      *)
(* which the decoder does not know: the process stops at that store (the   *)
(* memory there is not mapped), or the store falls on memory nothing       *)
(* reads, or it falls on the input buffer and changes bytes that the       *)
(* decoder goes on to read.  Each call of decoder_compute_frame is made    *)
(* under every layout that tells: the input buffer at every distance from  *)
(* the object at which a store of the call falls on it, and each of the    *)
(* words the call stores to being the first that is not mapped (LayoutsAt). *)
(*                                                                         *)
(* Loops.  Each loop of the code is a step operator (one iteration of the  *)
(* body) and a driver that applies it for iterations lo..hi-1, splitting   *)
(* the range in halves so that the evaluation depth stays logarithmic.     *)
(***************************************************************************)
EXTENDS Integers, Sequences, FiniteSets, TLC

VARIABLES
    data,          \* decoder->data: the input bytes
    data_index,    \* decoder->data_index: the read cursor
    strips,        \* decoder->strips, as sparse 16-bit words
    framebuffer,   \* decoder->framebuffer, as sparse 16-bit words
    run,           \* "ready" | "hung" (a call never returns) | "faulted" |
                   \* "exited" (the driver left by exit())
    last           \* what the most recent call did (history, for the claims)

vars == <<data, data_index, strips, framebuffer, run, last>>

----------------------------------------------------------------------------
(* Program constants                                                       *)

DECODER_WIDTH == 320
DECODER_HEIGHT == 240
DECODER_PIXELS == 320 * 240
DECODER_MAX_ENTRIES == 256
DECODER_MAX_STRIPS == 32

\* sizeof(decoder_codebook_t) in 16-bit words: c0, c1, c2, c3
EntryWords == 4
\* the four bounds x0, x1, y0, y1 that open decoder_strip_t
BoundWords == 4
TableWords == DECODER_MAX_ENTRIES * EntryWords
StripWords == BoundWords + 2 * TableWords
StripsWords == DECODER_MAX_STRIPS * StripWords
ObjectWords == StripsWords + DECODER_PIXELS

SUCCESS == "SUCCESS"
ERROR_EOF == "ERROR_EOF"
ERROR_INVALID_DATA == "ERROR_INVALID_DATA"
ERROR_BAD_DIMENSIONS == "ERROR_BAD_DIMENSIONS"
ERROR_INTERNAL == "ERROR_INTERNAL"
\* not statuses of the code: the call does not return
HANG == "HANG"
FAULT == "FAULT"

----------------------------------------------------------------------------
(* Arithmetic helpers                                                      *)

Pow2(n) == 2 ^ n

\* A uint32_t is kept as its two 16-bit halves <<high, low>>.
Zero32 == <<0, 0>>

\* bit `pos` (0 = most significant) of a 32-bit word: mask & (0x80000000 >> pos)
MaskBit(mask, pos) ==
    IF pos < 16 THEN (mask[1] \div Pow2(15 - pos)) % 2
    ELSE (mask[2] \div Pow2(31 - pos)) % 2

\* mask & ~(0x80000000 >> pos)
MaskClear(mask, pos) ==
    IF pos < 16 THEN <<mask[1] - MaskBit(mask, pos) * Pow2(15 - pos), mask[2]>>
    ELSE <<mask[1], mask[2] - MaskBit(mask, pos) * Pow2(31 - pos)>>

\* C division, truncating toward zero
CDiv(a, b) == IF a >= 0 THEN a \div b ELSE -((-a) \div b)

\* (int8_t)b for a byte b
AsInt8(b) == IF b >= 128 THEN b - 256 ELSE b

Max(a, b) == IF a >= b THEN a ELSE b

----------------------------------------------------------------------------
(* Reading the input.  p is a byte offset into data (a pointer).           *)

read_i8(dat, p) == dat[p + 1]

read_i16(dat, p) == dat[p + 1] * 256 + dat[p + 2]

read_i24(dat, p) == dat[p + 1] * 65536 + dat[p + 2] * 256 + dat[p + 3]

\* (data[0] << 24 is evaluated in int; the value kept is the one of the
\* conversion to uint32_t, which every build of the decoder produces)
read_i32(dat, p) ==
    <<dat[p + 1] * 256 + dat[p + 2], dat[p + 3] * 256 + dat[p + 4]>>

----------------------------------------------------------------------------
(* Colour conversion                                                       *)

Clip(x) == IF x < 0 THEN 0 ELSE IF x > 255 THEN 255 ELSE x

\* variant: up / 2 rounds toward minus infinity
YuvFloorHalf(y, u, v) ==
    LET rd == Clip(y + v * 2) \div 8
        gd == Clip(y - (u \div 2) - v * 1) \div 8
        bd == Clip(y + u * 2) \div 8
    IN  bd * 1024 + gd * 32 + rd

yuv_to_bgr555(y, u, v) ==
    LET rp == y + v * 2
        gp == y - CDiv(u, 2) - v * 1
        bp == y + u * 2
        rd == Clip(rp) \div 8
        gd == Clip(gp) \div 8
        bd == Clip(bp) \div 8
    IN  bd * 1024 + gd * 32 + rd

----------------------------------------------------------------------------
(* Sparse word memory                                                      *)

Get(f, a) == IF a \in DOMAIN f THEN f[a] ELSE 0

\* f with the words of upd stored (upd: address -> value); zero words are
\* not kept, so two memories with the same contents are equal
PutAll(f, upd) ==
    LET dom == {a \in DOMAIN f \cup DOMAIN upd :
                   IF a \in DOMAIN upd THEN upd[a] # 0 ELSE TRUE}
    IN  [a \in dom |-> IF a \in DOMAIN upd THEN upd[a] ELSE f[a]]

\* The words of upd (word index in an array at flat address org -> value)
\* whose flat address falls in lo..hi-1, by their index from lo
Window(upd, org, lo, hi) ==
    LET dom == {a \in DOMAIN upd : org + a >= lo /\ org + a < hi}
    IN  [a \in {org + x - lo : x \in dom} |-> upd[a + lo - org]]

\* The memory past the end of decoder_t, as one call finds it.  unmapped:
\* the memory that is not mapped, a store to which stops the process, as a
\* set of ranges <<lo, hi>>: the words lo .. hi - 1 after the end of the
\* object (hi = -1: every word from lo on).  buf: the input buffer, which is
\* mapped, starts buf words after the end of the object (-1: no store
\* reaches it).  big: the high byte of a word has the lower address.
Layout(unmapped, buf, big) == [unmapped |-> unmapped, buf |-> buf, big |-> big]

\* every word the call stores to is mapped and none is a word of the input
Free == Layout({}, -1, FALSE)

\* whether the word o words after the end of the object is not mapped
Unmapped(ub, o) ==
    \E range \in ub.unmapped : o >= range[1] /\ (range[2] < 0 \/ o < range[2])

\* the byte at offset p of a buffer whose 16-bit word p \div 2 holds w
ByteOfWord(w, p, big) ==
    IF (p % 2 = 0) = big THEN w \div 256 ELSE w % 256

\* the input dat after the stores upd (word index in the buffer -> value)
Overwritten(dat, upd, big) ==
    [i \in 1..Len(dat) |->
        IF (i - 1) \div 2 \in DOMAIN upd
        THEN ByteOfWord(upd[(i - 1) \div 2], i - 1, big)
        ELSE dat[i]]

\* the number of 16-bit words that hold bytes of the input dat
BufferWords(dat) == (Len(dat) + 1) \div 2

\* whether the word o words after the end of the object is one of the input
\* buffer of d
OnInput(d, o) ==
    d.ub.buf >= 0 /\ o >= d.ub.buf /\ o < d.ub.buf + BufferWords(d.data)

\* d after one store of w to the word o words after the end of decoder_t
StorePast(d, o, w) ==
    IF OnInput(d, o)
    THEN [d EXCEPT !.data = Overwritten(@, (o - d.ub.buf) :> w, d.ub.big),
                   !.past = @ \cup {o}]
    ELSE IF Unmapped(d.ub, o)
    THEN [d EXCEPT !.fault = TRUE, !.past = @ \cup {o}]
    ELSE [d EXCEPT !.past = @ \cup {o}]

\* d after the stores seq[lo], ..., seq[Len(seq)], each <<flat address, word>>,
\* made one after the other until one stops the process
RECURSIVE StoreEach(_, _, _)
StoreEach(d, seq, lo) ==
    IF lo > Len(seq) \/ d.fault THEN d
    ELSE IF seq[lo][1] >= ObjectWords
    THEN StoreEach(StorePast(d, seq[lo][1] - ObjectWords, seq[lo][2]), seq, lo + 1)
    ELSE IF seq[lo][1] >= StripsWords
    THEN StoreEach([d EXCEPT !.framebuffer =
                        PutAll(@, (seq[lo][1] - StripsWords) :> seq[lo][2])],
                   seq, lo + 1)
    ELSE StoreEach([d EXCEPT !.strips = PutAll(@, seq[lo][1] :> seq[lo][2])],
                   seq, lo + 1)

\* d after the stores seq (each <<word index, value>>, in the order of the
\* code) through a pointer to the array at flat address org (0: strips,
\* StripsWords: framebuffer).  Stores that all stay inside decoder_t are
\* made at once.
StoreWords(d, org, seq) ==
    LET upd == [a \in {seq[i][1] : i \in DOMAIN seq} |->
                   seq[CHOOSE i \in DOMAIN seq :
                           /\ seq[i][1] = a
                           /\ \A j \in DOMAIN seq : seq[j][1] = a => j <= i][2]]
    IN  IF d.fault THEN d
        ELSE IF \E a \in DOMAIN upd : org + a >= ObjectWords
        THEN StoreEach(d, [i \in DOMAIN seq |-> <<org + seq[i][1], seq[i][2]>>], 1)
        ELSE [d EXCEPT
                !.strips = PutAll(@, Window(upd, org, 0, StripsWords)),
                !.framebuffer = PutAll(@, Window(upd, org, StripsWords, ObjectWords))]

StripBase(i) == i * StripWords
V4Base(i) == StripBase(i) + BoundWords
V1Base(i) == StripBase(i) + BoundWords + TableWords

\* strip->x0 ... strip->y1 of strips[i] in the strips memory S
StripX0(S, i) == Get(S, StripBase(i) + 0)
StripX1(S, i) == Get(S, StripBase(i) + 1)
StripY0(S, i) == Get(S, StripBase(i) + 2)
StripY1(S, i) == Get(S, StripBase(i) + 3)

\* table[e] as <<c0, c1, c2, c3>>, table being the flat address of v4 or v1
Entry(S, table, e) == [k \in 0..3 |-> Get(S, table + EntryWords * e + k)]

----------------------------------------------------------------------------
(* Block painter.  d is the decoder during a call: its strips and          *)
(* framebuffer, the input bytes data as they are now, the layout ub, the   *)
(* flag fault (the process stopped at a store), and the history of the call *)
(* (cells: raster cells painted; fb_hi: highest framebuffer index stored   *)
(* to; cb_hi: highest codebook entry index stored to; accepted, intra: the *)
(* bounds of the strips accepted and of those painted by an intra vector   *)
(* chunk).  si is the index of the strip (strip = decoder->strips + si),   *)
(* ve the offset of vector_entry.                                          *)

\* history: the n input bytes from offset lo are read, the code having
\* checked that the bytes ulo .. uhi - 1 are there
Reading(d, lo, n, ulo, uhi) ==
    [d EXCEPT !.reads = @ \cup {<<lo, lo + n, ulo, uhi>>}]

\* the history of a cell painted at framebuffer index base
Noted(d1, base, top) ==
    [d1 EXCEPT !.fb_hi = Max(@, top),
               !.cells = IF top >= DECODER_PIXELS THEN @ ELSE @ \cup {base}]

\* the offsets (dy, dx) of the 16 pixels of a cell
CellOffsets == (0..3) \X (0..3)

\* the offsets of the four pixels of the 2x2 block k of a cell (0: top left,
\* 1: top right, 2: bottom left, 3: bottom right), in the order of the stores
BlockOffsets(k) ==
    LET dy == 2 * (k \div 2)
        dx == 2 * (k % 2)
    IN  <<<<dy, dx>>, <<dy, dx + 1>>, <<dy + 1, dx>>, <<dy + 1, dx + 1>>>>

\* the stores of the pixels offs of the cell at (y, x): colour[<<dy, dx>>] is
\* the value stored to framebuffer[(y + dy) * DECODER_WIDTH + (x + dx)]
PaintPixels(d, y, x, offs, colour) ==
    StoreWords(d, StripsWords,
        [i \in DOMAIN offs |->
            <<(y + offs[i][1]) * DECODER_WIDTH + x + offs[i][2], colour[offs[i]]>>])

\* the 16 stores of one 4x4 cell at (y, x), block after block
PaintCell(d, y, x, colour) ==
    Noted(PaintPixels(d, y, x,
              BlockOffsets(0) \o BlockOffsets(1) \o BlockOffsets(2) \o BlockOffsets(3),
              colour),
          y * DECODER_WIDTH + x, (y + 3) * DECODER_WIDTH + x + 3)

\* codebook_entry = strip->v4[vector_entry[k]], read from the input as it is
\* now, and the four stores of block k
PaintBlock(d, si, ve, y, x, k) ==
    LET codebook_entry == Entry(d.strips, V4Base(si), read_i8(d.data, ve + k))
    IN  PaintPixels(d, y, x, BlockOffsets(k),
           [o \in CellOffsets |-> codebook_entry[2 * (o[1] % 2) + (o[2] % 2)]])

decoder_write_v4(d, si, ve, y, x) ==
    Noted(PaintBlock(PaintBlock(PaintBlock(PaintBlock(d, si, ve, y, x, 0),
                                           si, ve, y, x, 1),
                                si, ve, y, x, 2),
                     si, ve, y, x, 3),
          y * DECODER_WIDTH + x, (y + 3) * DECODER_WIDTH + x + 3)

\* variant: the cell is painted with the first colour of the entry only
WriteV1Flat(d, si, ve, y, x) ==
    LET codebook_entry == Entry(d.strips, V1Base(si), read_i8(d.data, ve))
    IN  PaintCell(d, y, x, [o \in CellOffsets |-> codebook_entry[0]])

decoder_write_v1(d, si, ve, y, x) ==
    LET codebook_entry == Entry(d.strips, V1Base(si), read_i8(d.data, ve))
    IN  PaintCell(d, y, x,
           [o \in CellOffsets |-> codebook_entry[2 * (o[1] \div 2) + (o[2] \div 2)]])

----------------------------------------------------------------------------
(* Codebook updater.  cd is the offset of codebook_data, codebook the flat *)
(* address of the target table.  The loop state c holds the decoder d, the *)
(* locals codebook_index, entry_index and update_mask, and r: "RUN" while  *)
(* the loop runs, else the status returned.                                *)

\* what a decoder function returns: the decoder and the status
Returned(st) == [d |-> st.d, r |-> st.r]

\* "RUN" unless the process stopped at a store
Going(d) == IF d.fault THEN FAULT ELSE "RUN"

\* the four colours of one entry read at offset e
CodebookEntry(dat, e, bpp12) ==
    LET u == IF bpp12 THEN AsInt8(read_i8(dat, e + 4)) ELSE 0
        v == IF bpp12 THEN AsInt8(read_i8(dat, e + 5)) ELSE 0
    IN  [k \in 0..3 |-> yuv_to_bgr555(read_i8(dat, e + k), u, v)]

\* entry->c0 .. entry->c3 = colours, entry = codebook + entry_index
StoreEntry(d, codebook, entry_index, colours) ==
    LET at  == codebook + EntryWords * entry_index
    IN  [StoreWords(d, 0, [k \in 1..4 |-> <<at + k - 1, colours[k - 1]>>])
            EXCEPT !.cb_hi = Max(@, entry_index)]

\* the number of payload bytes of one entry
EntryBytes(bpp12) == IF bpp12 THEN 6 ELSE 4

\* whether the updater fetches a new update mask before this entry
MaskDue(selective, entry_index) == selective /\ entry_index % 32 = 0

\* the check made once the payload is exhausted
CodebookEndStatus(selective, update_mask) ==
    IF selective /\ update_mask # Zero32 THEN ERROR_INVALID_DATA ELSE SUCCESS

\* the loop state once the entry was stored (d1) and the locals advanced
CodebookNext(d1, index, entry_index, mask) ==
    [d |-> d1, codebook_index |-> index, entry_index |-> entry_index,
     update_mask |-> mask, r |-> Going(d1)]

\* the loop body once the update mask is in place: mask and index are
\* update_mask and codebook_index after the fetch (if one was due)
CodebookUpdate(dat, cd, codebook_length, codebook, bpp12, selective, c, mask, index) ==
    IF selective /\ MaskBit(mask, c.entry_index % 32) = 0
    THEN \* update_mask &= ~skip_mask; continue;
         [c EXCEPT !.update_mask = MaskClear(mask, c.entry_index % 32),
                   !.codebook_index = index]
    ELSE IF codebook_length - index < EntryBytes(bpp12)
    THEN [c EXCEPT !.r = ERROR_INVALID_DATA]
    ELSE CodebookNext(StoreEntry(Reading(c.d, cd + index, EntryBytes(bpp12),
                                         cd, cd + codebook_length),
                                 codebook, c.entry_index,
                                 CodebookEntry(dat, cd + index, bpp12)),
                      index + EntryBytes(bpp12), c.entry_index + 1, mask)

\* one evaluation of the loop condition and, if it holds, of the loop body
CodebookBody(dat, cd, codebook_length, codebook, bpp12, selective, c) ==
    IF ~(c.codebook_index < codebook_length)
    THEN [c EXCEPT !.r = CodebookEndStatus(selective, c.update_mask)]
    ELSE IF ~MaskDue(selective, c.entry_index)
    THEN CodebookUpdate(dat, cd, codebook_length, codebook, bpp12, selective, c,
                        c.update_mask, c.codebook_index)
    ELSE IF codebook_length - c.codebook_index < 4
    THEN [c EXCEPT !.r = ERROR_INVALID_DATA]
    ELSE CodebookUpdate(dat, cd, codebook_length, codebook, bpp12, selective,
                        [c EXCEPT !.d = Reading(@, cd + c.codebook_index, 4,
                                                cd, cd + codebook_length)],
                        read_i32(dat, cd + c.codebook_index), c.codebook_index + 4)

\* An iteration that leaves every local and the decoder as they were is
\* repeated for ever: the call does not return.  n is the state after c.
Repeats(c, n) ==
    /\ n.r = "RUN"
    /\ n.codebook_index = c.codebook_index
    /\ n.entry_index = c.entry_index
    /\ n.update_mask = c.update_mask
    /\ n.d = c.d

HangIfRepeats(c, n) == IF Repeats(c, n) THEN [c EXCEPT !.r = HANG] ELSE n

CodebookStep(dat, cd, codebook_length, codebook, bpp12, selective, c) ==
    IF c.r # "RUN" THEN c
    ELSE HangIfRepeats(c, CodebookBody(dat, cd, codebook_length, codebook, bpp12,
                                       selective, c))

\* (each iteration reads the input as it is by then: c.d.data)
RECURSIVE CodebookLoop(_, _, _, _, _, _, _, _)
CodebookLoop(cd, codebook_length, codebook, bpp12, selective, lo, hi, c) ==
    IF c.r # "RUN" \/ hi <= lo THEN c
    ELSE IF hi = lo + 1
    THEN CodebookStep(c.d.data, cd, codebook_length, codebook, bpp12, selective, c)
    ELSE LET mid == (lo + hi) \div 2
             c1  == CodebookLoop(cd, codebook_length, codebook, bpp12,
                                 selective, lo, mid, c)
         IN  IF c1.r # "RUN" THEN c1
             ELSE CodebookLoop(cd, codebook_length, codebook, bpp12,
                               selective, mid, hi, c1)

\* Every iteration that goes on consumes at least 4 bytes, so
\* codebook_length \div 4 + 2 evaluations of the condition end the loop.
decoder_compute_codebook(d, cd, codebook_length, codebook, bpp12, selective) ==
    Returned(CodebookLoop(cd, codebook_length, codebook, bpp12, selective,
                          0, codebook_length \div 4 + 2,
                          [d |-> d, codebook_index |-> 0, entry_index |-> 0,
                           update_mask |-> Zero32, r |-> "RUN"]))

----------------------------------------------------------------------------
(* Vector decoders.  vd is the offset of vector_data.  The two nested for  *)
(* loops over y and x visit the cells of the strip row by row; cell number *)
(* k (from 0) is at row k \div g.cols, column k % g.cols.                   *)

\* the number of iterations of for (v = a; v < b; v += 4)
GridSteps(a, b) == IF a >= b THEN 0 ELSE (b - a + 3) \div 4

\* the walk of strips[si]: its origin and its numbers of columns and rows
\* (the bounds do not change during a walk: the painter stores to the
\* framebuffer or past it)
Grid(S, si) ==
    [x0 |-> StripX0(S, si), y0 |-> StripY0(S, si),
     cols |-> GridSteps(StripX0(S, si), StripX1(S, si)),
     rows |-> GridSteps(StripY0(S, si), StripY1(S, si))]
GridCells(g) == g.rows * g.cols
CellY(g, k) == g.y0 + 4 * (k \div g.cols)
\* variant: the walk does not move along the row
CellXStuck(g, k) == g.x0
CellX(g, k) == g.x0 + 4 * (k % g.cols)

\* the check made after the walk: all the data was consumed
VectorEndStatus(vector_index, vector_length) ==
    IF vector_index # vector_length THEN ERROR_INVALID_DATA ELSE SUCCESS

\* what a vector decoder returns after the walk ended in state w
WalkReturned(w, vector_length) ==
    [d |-> w.d,
     r |-> IF w.r # "RUN" THEN w.r ELSE VectorEndStatus(w.vector_index, vector_length)]

\* the walk state once the cell was painted (d1) and need bytes consumed
Painted(w, d1, index, need) ==
    [w EXCEPT !.d = d1, !.vector_index = index + need, !.r = Going(d1)]

\* the cell at (y, x) once v4_mask is in place: index is vector_index after
\* the fetch (if one was due)
IntraCell(dat, vd, vector_length, si, y, x, w, v4, index) ==
    IF v4
    THEN IF vector_length - index < 4 THEN [w EXCEPT !.r = ERROR_INVALID_DATA]
         ELSE Painted(w, decoder_write_v4(
                             Reading(w.d, vd + index, 4, vd, vd + vector_length),
                             si, vd + index, y, x), index, 4)
    ELSE IF vector_length - index < 1 THEN [w EXCEPT !.r = ERROR_INVALID_DATA]
         ELSE Painted(w, decoder_write_v1(
                             Reading(w.d, vd + index, 1, vd, vd + vector_length),
                             si, vd + index, y, x), index, 1)

\* pixel_index++ after a cell that went through
NextPixel(w) == IF w.r = "RUN" THEN [w EXCEPT !.pixel_index = @ + 1] ELSE w

\* the body of the inner loop of decoder_compute_intra_vectors at (y, x);
\* w holds d, vector_index, pixel_index, v4_mask and r
IntraStep(dat, vd, vector_length, si, mixed, y, x, w) ==
    IF w.r # "RUN" THEN w
    ELSE IF w.vector_index > vector_length THEN [w EXCEPT !.r = ERROR_INVALID_DATA]
    ELSE IF ~(mixed /\ w.pixel_index % 32 = 0)
    THEN NextPixel(IntraCell(dat, vd, vector_length, si, y, x, w,
                      mixed /\ MaskBit(w.v4_mask, w.pixel_index % 32) # 0,
                      w.vector_index))
    ELSE IF vector_length - w.vector_index < 4
    THEN [w EXCEPT !.r = ERROR_INVALID_DATA]
    ELSE NextPixel(IntraCell(dat, vd, vector_length, si, y, x,
                      [w EXCEPT !.v4_mask = read_i32(dat, vd + w.vector_index),
                                !.d = Reading(@, vd + w.vector_index, 4,
                                              vd, vd + vector_length)],
                      MaskBit(read_i32(dat, vd + w.vector_index),
                              w.pixel_index % 32) # 0,
                      w.vector_index + 4))

\* (each cell reads the input as it is by then: w.d.data)
RECURSIVE IntraLoop(_, _, _, _, _, _, _, _)
IntraLoop(vd, vector_length, si, mixed, g, lo, hi, w) ==
    IF w.r # "RUN" \/ hi <= lo THEN w
    ELSE IF hi = lo + 1
    THEN IntraStep(w.d.data, vd, vector_length, si, mixed,
                   CellY(g, lo), CellX(g, lo), w)
    ELSE LET mid == (lo + hi) \div 2
             w1  == IntraLoop(vd, vector_length, si, mixed, g, lo, mid, w)
         IN  IF w1.r # "RUN" THEN w1
             ELSE IntraLoop(vd, vector_length, si, mixed, g, mid, hi, w1)

\* the walk over the grid g
IntraWalk(d, vd, vector_length, si, mixed, g) ==
    IntraLoop(vd, vector_length, si, mixed, g, 0, GridCells(g),
              [d |-> d, vector_index |-> 0, pixel_index |-> 0,
               v4_mask |-> Zero32, r |-> "RUN"])

decoder_compute_intra_vectors(d, vd, vector_length, si, mixed) ==
    WalkReturned(IntraWalk(d, vd, vector_length, si, mixed, Grid(d.strips, si)),
                 vector_length)

\* variant: the bits of the word are taken from the least significant one
ShiftInLsbFirst(w) ==
    [w EXCEPT !.instr = 2 * @ + MaskBit(w.instr_mask, 31 - (w.instr_index % 32)),
              !.instr_index = @ + 1]

\* instr <<= 1; if ((instr_mask & bit_mask) != 0) instr |= 1; instr_index++
ShiftIn(w) ==
    [w EXCEPT !.instr = 2 * @ + MaskBit(w.instr_mask, w.instr_index % 32),
              !.instr_index = @ + 1]

\* the instruction word at vector_index is read
InstrWord(dat, vd, vector_length, w) ==
    [w EXCEPT !.instr_mask = read_i32(dat, vd + w.vector_index),
              !.vector_index = @ + 4,
              !.d = Reading(@, vd + w.vector_index, 4, vd, vd + vector_length)]

\* variant: the instruction word is read without asking whether 4 bytes of
\* the payload are left
InstrBitUnchecked(dat, vd, vector_length, w) ==
    IF w.r # "RUN" THEN w
    ELSE IF w.instr_index % 32 # 0 THEN ShiftIn(w)
    ELSE ShiftIn(InstrWord(dat, vd, vector_length, w))

\* one pass of the instruction loop (for i < 2): shift in the next bit,
\* reading a new instruction word first when 32 bits were used
InstrBit(dat, vd, vector_length, w) ==
    IF w.r # "RUN" THEN w
    ELSE IF w.instr_index % 32 # 0 THEN ShiftIn(w)
    ELSE IF vector_length - w.vector_index < 4
    THEN [w EXCEPT !.r = ERROR_INVALID_DATA]
    ELSE ShiftIn(InstrWord(dat, vd, vector_length, w))

\* variant: the second pass is made whatever the first bit was
SecondBitAlways(dat, vd, vector_length, b1) ==
    IF b1.r # "RUN" THEN b1 ELSE InstrBit(dat, vd, vector_length, b1)

\* the second pass, unless the first bit was zero
SecondBit(dat, vd, vector_length, b1) ==
    IF b1.r # "RUN" \/ b1.instr = 0 THEN b1
    ELSE InstrBit(dat, vd, vector_length, b1)

\* the instruction of one cell
ReadInstr(dat, vd, vector_length, w) ==
    SecondBit(dat, vd, vector_length,
              InstrBit(dat, vd, vector_length, [w EXCEPT !.instr = 0]))

\* the cell at (y, x) once its instruction i.instr was read
InterCell(dat, vd, vector_length, si, y, x, i) ==
    IF i.r # "RUN" THEN i
    ELSE IF i.instr \notin {0, 2, 3} THEN [i EXCEPT !.r = ERROR_INTERNAL]
    ELSE IF i.instr = 0 THEN i
    ELSE IF i.instr = 3
    THEN IF vector_length - i.vector_index < 4 THEN [i EXCEPT !.r = ERROR_INVALID_DATA]
         ELSE Painted(i, decoder_write_v4(
                             Reading(i.d, vd + i.vector_index, 4, vd, vd + vector_length),
                             si, vd + i.vector_index, y, x),
                      i.vector_index, 4)
    ELSE IF vector_length - i.vector_index < 1 THEN [i EXCEPT !.r = ERROR_INVALID_DATA]
         ELSE Painted(i, decoder_write_v1(
                             Reading(i.d, vd + i.vector_index, 1, vd, vd + vector_length),
                             si, vd + i.vector_index, y, x),
                      i.vector_index, 1)

\* the body of the inner loop of decoder_compute_inter_vectors at (y, x);
\* w holds d, vector_index, instr_mask, instr_index, instr and r
InterStep(dat, vd, vector_length, si, y, x, w) ==
    IF w.r # "RUN" THEN w
    ELSE IF w.vector_index > vector_length THEN [w EXCEPT !.r = ERROR_INVALID_DATA]
    ELSE InterCell(dat, vd, vector_length, si, y, x,
                   ReadInstr(dat, vd, vector_length, w))

\* (each cell reads the input as it is by then: w.d.data)
RECURSIVE InterLoop(_, _, _, _, _, _, _)
InterLoop(vd, vector_length, si, g, lo, hi, w) ==
    IF w.r # "RUN" \/ hi <= lo THEN w
    ELSE IF hi = lo + 1
    THEN InterStep(w.d.data, vd, vector_length, si, CellY(g, lo), CellX(g, lo), w)
    ELSE LET mid == (lo + hi) \div 2
             w1  == InterLoop(vd, vector_length, si, g, lo, mid, w)
         IN  IF w1.r # "RUN" THEN w1
             ELSE InterLoop(vd, vector_length, si, g, mid, hi, w1)

\* the walk over the grid g
InterWalk(d, vd, vector_length, si, g) ==
    InterLoop(vd, vector_length, si, g, 0, GridCells(g),
              [d |-> d, vector_index |-> 0, instr_mask |-> Zero32,
               instr_index |-> 0, instr |-> 0, r |-> "RUN"])

decoder_compute_inter_vectors(d, vd, vector_length, si) ==
    WalkReturned(InterWalk(d, vd, vector_length, si, Grid(d.strips, si)),
                 vector_length)

----------------------------------------------------------------------------
(* Strip parser.  sd is the offset of strip_data, si the index of          *)
(* strip_current; strip_previous is strips[si - 1], or NULL when si = 0.   *)

\* strip_current->x0, x1, y0, y1 = the given values
StoreBounds(d, si, x0, x1, y0, y1) ==
    LET at == StripBase(si)
    IN  StoreWords(d, 0, [k \in 1..4 |-> <<at + k - 1, <<x0, x1, y0, y1>>[k]>>])

\* the bounds a strip header is rejected for
BadBounds(x0, x1, y0, y1) ==
    \/ x1 > DECODER_WIDTH \/ y1 > DECODER_HEIGHT
    \/ x0 % 4 # 0 \/ x1 % 4 # 0 \/ y0 % 4 # 0 \/ y1 % 4 # 0
    \/ x0 >= x1 \/ y0 >= y1

\* the checks of the strip header, in the order of the code
StripHeaderStatus(dat, sd, strip_length) ==
    IF BadBounds(read_i16(dat, sd + 6), read_i16(dat, sd + 10),
                 read_i16(dat, sd + 4), read_i16(dat, sd + 8))
    THEN ERROR_INVALID_DATA
    ELSE IF read_i16(dat, sd + 0) \notin {4096, 4352} THEN ERROR_INVALID_DATA
    ELSE IF strip_length # read_i16(dat, sd + 2) THEN ERROR_INTERNAL
    ELSE SUCCESS

\* y0 == 0 with a previous strip: the bounds are relative to the previous strip
\* variant: the bounds stay as decoded
ContinuationNever(d, si) == d

Continuation(d, si) ==
    IF StripY0(d.strips, si) = 0 /\ si > 0
    THEN StoreBounds(d, si, StripX0(d.strips, si), StripX1(d.strips, si),
                     StripY1(d.strips, si - 1),
                     (StripY1(d.strips, si - 1) + StripY1(d.strips, si)) % 65536)
    ELSE d

\* memcpy of v1 and v4 from strips[si - 1] (the two tables are adjacent)
CopyTables(S, si) ==
    LET dst == StripBase(si) + BoundWords
        end == StripBase(si) + StripWords
        src == {a \in DOMAIN S : a + StripWords >= dst /\ a + StripWords < end}
        dom == {a \in DOMAIN S : ~(a >= dst /\ a < end)}
               \cup {a + StripWords : a \in src}
    IN  [a \in dom |-> IF a >= dst /\ a < end THEN S[a - StripWords] ELSE S[a]]

\* variant: the tables are copied whatever the coding mode of the frame
CarryOverAlways(d, si, frame_inter_coded) ==
    IF si > 0 THEN [d EXCEPT !.strips = CopyTables(@, si)] ELSE d

CarryOver(d, si, frame_inter_coded) ==
    IF frame_inter_coded /\ si > 0
    THEN [d EXCEPT !.strips = CopyTables(@, si)]
    ELSE d

\* strips[si] with its bounds: <<si, x0, x1, y0, y1>>
Bounds(S, si) ==
    <<si, StripX0(S, si), StripX1(S, si), StripY0(S, si), StripY1(S, si)>>

\* history: the header of strips[si] was accepted with the bounds now stored
Accepted(d, si) == [d EXCEPT !.accepted = @ \cup {Bounds(d.strips, si)}]

\* history: an intra vector chunk of strips[si] was decoded with success
IntraNoted(res, si) ==
    IF res.r # SUCCESS THEN res
    ELSE [res EXCEPT !.d.intra = @ \cup {Bounds(res.d.strips, si)}]

CodebookTags == {8192, 8448, 8704, 8960, 9216, 9472, 9728, 9984}

\* chunk_id & bit # 0, for a single-bit mask
TagBit(chunk_id, bit) == (chunk_id \div bit) % 2 = 1

\* the switch on chunk_id: returns [d, r]
Dispatch(d, chunk_data, chunk_id, chunk_length, si) ==
    IF chunk_id \in CodebookTags
    THEN decoder_compute_codebook(d, chunk_data + 4, chunk_length - 4,
             IF TagBit(chunk_id, 512) THEN V1Base(si) ELSE V4Base(si),
             ~TagBit(chunk_id, 1024), TagBit(chunk_id, 256))
    ELSE IF chunk_id \in {12288, 12800}
    THEN IntraNoted(decoder_compute_intra_vectors(d, chunk_data + 4,
                        chunk_length - 4, si, ~TagBit(chunk_id, 512)), si)
    ELSE IF chunk_id = 12544
    THEN decoder_compute_inter_vectors(d, chunk_data + 4, chunk_length - 4, si)
    ELSE [d |-> d, r |-> ERROR_INVALID_DATA]

\* history: the chunk at chunk_data was dispatched on the decoder d0 and
\* ended as res; S0, fb0 and S1, fb1 are the strips and the framebuffer
\* before and after it
ChunkNoted(d0, chunk_data, chunk_id, chunk_length, si, res) ==
    [res EXCEPT !.d.chunks =
        Append(@, [id |-> chunk_id, si |-> si, at |-> chunk_data,
                   len |-> chunk_length, r |-> res.r,
                   S0 |-> d0.strips, fb0 |-> d0.framebuffer,
                   S1 |-> res.d.strips, fb1 |-> res.d.framebuffer])]

\* if (r != SUCCESS) return r; chunk_index += chunk_length
ChunkDone(q, res, chunk_length) ==
    IF res.r # SUCCESS
    THEN [q EXCEPT !.d = res.d, !.r = res.r]
    ELSE [q EXCEPT !.d = res.d, !.chunk_index = @ + chunk_length]

\* the chunk at chunk_data, its header being inside the strip
ChunkAt(dat, chunk_data, strip_length, si, q) ==
    IF read_i16(dat, chunk_data + 2) < 4 THEN [q EXCEPT !.r = ERROR_INVALID_DATA]
    ELSE IF q.chunk_index + read_i16(dat, chunk_data + 2) > strip_length
    THEN [q EXCEPT !.r = ERROR_INVALID_DATA]
    ELSE ChunkDone(q,
             ChunkNoted(q.d, chunk_data, read_i16(dat, chunk_data + 0),
                        read_i16(dat, chunk_data + 2), si,
                        Dispatch(q.d, chunk_data, read_i16(dat, chunk_data + 0),
                                 read_i16(dat, chunk_data + 2), si)),
             read_i16(dat, chunk_data + 2))

\* one evaluation of the chunk loop's condition and body; q holds d,
\* chunk_index and r
ChunkStep(dat, sd, strip_length, si, q) ==
    IF q.r # "RUN" THEN q
    ELSE IF q.chunk_index = strip_length THEN [q EXCEPT !.r = SUCCESS]
    ELSE IF q.chunk_index + 4 > strip_length THEN [q EXCEPT !.r = ERROR_INVALID_DATA]
    ELSE ChunkAt(dat, sd + q.chunk_index, strip_length, si,
                 [q EXCEPT !.d = Reading([@ EXCEPT !.chunk_at = sd + q.chunk_index],
                                         sd + q.chunk_index, 4,
                                         sd, sd + strip_length)])

\* (each chunk header is read from the input as it is by then: q.d.data)
RECURSIVE ChunkLoop(_, _, _, _, _, _)
ChunkLoop(sd, strip_length, si, lo, hi, q) ==
    IF q.r # "RUN" \/ hi <= lo THEN q
    ELSE IF hi = lo + 1 THEN ChunkStep(q.d.data, sd, strip_length, si, q)
    ELSE LET mid == (lo + hi) \div 2
             q1  == ChunkLoop(sd, strip_length, si, lo, mid, q)
         IN  IF q1.r # "RUN" THEN q1
             ELSE ChunkLoop(sd, strip_length, si, mid, hi, q1)

\* history: the chunk loop of strips[si] is entered with the decoder d; S_in
\* is the strips memory as decoder_compute_strip found it (its tables: the
\* bounds of strips[si] are stored by then)
Begun(d, S_in, si) ==
    [d EXCEPT !.begun = @ \cup {[si |-> si, S_in |-> S_in, S |-> d.strips]}]

\* the strip from the coordinate continuation on: d1 holds the bounds read.
\* Each chunk is at least 4 bytes long.
StripBody(d1, sd, strip_length, si, frame_inter_coded) ==
    Returned(ChunkLoop(sd, strip_length, si, 0, strip_length \div 4 + 2,
        [d |-> Begun(CarryOver(Accepted(Continuation(d1, si), si), si,
                               frame_inter_coded), d1.strips, si),
         chunk_index |-> 12, r |-> "RUN"]))

\* the strip once the bounds were read into strip_current (d1)
\* history: the strip id is read if the bounds are accepted, the length
\* field again if the id is
StripHeaderRead(d1, dat, sd, strip_length) ==
    IF BadBounds(read_i16(dat, sd + 6), read_i16(dat, sd + 10),
                 read_i16(dat, sd + 4), read_i16(dat, sd + 8))
    THEN d1
    ELSE IF read_i16(dat, sd + 0) \notin {4096, 4352}
    THEN Reading(d1, sd + 0, 2, sd, sd + strip_length)
    ELSE Reading(Reading(d1, sd + 0, 2, sd, sd + strip_length),
                 sd + 2, 2, sd, sd + strip_length)

StripChecked(d1, dat, sd, strip_length, si, frame_inter_coded) ==
    IF StripHeaderStatus(dat, sd, strip_length) # SUCCESS
    THEN [d |-> StripHeaderRead(d1, dat, sd, strip_length),
          r |-> StripHeaderStatus(dat, sd, strip_length)]
    ELSE StripBody(StripHeaderRead(d1, dat, sd, strip_length), sd,
                   strip_length, si, frame_inter_coded)

decoder_compute_strip(d, dat, sd, strip_length, si, frame_inter_coded) ==
    StripChecked(StoreBounds(Reading(d, sd + 4, 8, sd, sd + strip_length), si, read_i16(dat, sd + 6), read_i16(dat, sd + 10),
                             read_i16(dat, sd + 4), read_i16(dat, sd + 8)),
                 dat, sd, strip_length, si, frame_inter_coded)

----------------------------------------------------------------------------
(* Frame parser                                                            *)

\* variant: the end of the input still counts as a frame
HasNextAtEnd(index, length) == index <= length

decoder_has_next_frame(index, length) == index < length

decoder_data_remaining(index, length) ==
    IF decoder_has_next_frame(index, length) THEN length - index ELSE 0

\* the checks made on strip i before it is parsed
StripLengthStatus(dat, index) ==
    IF decoder_data_remaining(index, Len(dat)) < 12 THEN ERROR_INVALID_DATA
    ELSE IF read_i16(dat, index + 2) < 12 THEN ERROR_INVALID_DATA
    ELSE IF decoder_data_remaining(index, Len(dat)) < read_i16(dat, index + 2)
    THEN ERROR_INVALID_DATA
    ELSE SUCCESS

\* if (r != SUCCESS) return r; data_index += strip_length
StripDone(f, i, res, strip_length) ==
    IF res.r # SUCCESS
    THEN [f EXCEPT !.d = res.d, !.r = res.r, !.failed = i]
    ELSE [f EXCEPT !.d = res.d, !.data_index = @ + strip_length]

\* the body of the strip loop for strip i; f holds d, data_index, r and
\* failed (the index of the strip that did not succeed, or -1)
StripAt(dat, frame_inter_coded, i, f) ==
    IF StripLengthStatus(dat, f.data_index) # SUCCESS
    THEN [f EXCEPT !.r = ERROR_INVALID_DATA, !.failed = i]
    ELSE StripDone(f, i,
                   decoder_compute_strip(f.d, dat, f.data_index,
                       read_i16(dat, f.data_index + 2), i, frame_inter_coded),
                   read_i16(dat, f.data_index + 2))

\* history: the length field of the strip header at the cursor is read once
\* 12 bytes are known to remain
StripSeen(dat, f) ==
    IF decoder_data_remaining(f.data_index, Len(dat)) < 12 THEN f
    ELSE [f EXCEPT !.d = Reading([@ EXCEPT !.strip_at = f.data_index],
                                 f.data_index + 2, 2,
                                 f.data_index, f.data_index + 12)]

StripStep(dat, frame_inter_coded, i, f) ==
    IF f.r # "RUN" THEN f
    ELSE StripAt(dat, frame_inter_coded, i, StripSeen(dat, f))

\* (each strip header is read from the input as it is by then: f.d.data)
RECURSIVE StripLoop(_, _, _, _)
StripLoop(frame_inter_coded, lo, hi, f) ==
    IF f.r # "RUN" \/ hi <= lo THEN f
    ELSE IF hi = lo + 1 THEN StripStep(f.d.data, frame_inter_coded, lo, f)
    ELSE LET mid == (lo + hi) \div 2
             f1  == StripLoop(frame_inter_coded, lo, mid, f)
         IN  IF f1.r # "RUN" THEN f1
             ELSE StripLoop(frame_inter_coded, mid, hi, f1)

\* variant: the declared length of the frame is not checked
FrameHeaderNoLength(dat, index) ==
    IF decoder_data_remaining(index, Len(dat)) < 10 THEN ERROR_INVALID_DATA
    ELSE IF read_i16(dat, index + 4) # DECODER_WIDTH
            \/ read_i16(dat, index + 6) # DECODER_HEIGHT
    THEN ERROR_BAD_DIMENSIONS
    ELSE SUCCESS

\* variant: the declared length is checked before the dimensions
FrameHeaderLengthFirst(dat, index) ==
    IF decoder_data_remaining(index, Len(dat)) < 10 THEN ERROR_INVALID_DATA
    ELSE IF read_i24(dat, index + 1) < 10 THEN ERROR_INVALID_DATA
    ELSE IF read_i16(dat, index + 4) # DECODER_WIDTH
            \/ read_i16(dat, index + 6) # DECODER_HEIGHT
    THEN ERROR_BAD_DIMENSIONS
    ELSE SUCCESS

\* the checks of the frame header made before the cursor moves
FrameHeaderStatus(dat, index) ==
    IF decoder_data_remaining(index, Len(dat)) < 10 THEN ERROR_INVALID_DATA
    ELSE IF read_i16(dat, index + 4) # DECODER_WIDTH
            \/ read_i16(dat, index + 6) # DECODER_HEIGHT
    THEN ERROR_BAD_DIMENSIONS
    ELSE IF read_i24(dat, index + 1) < 10 THEN ERROR_INVALID_DATA
    ELSE SUCCESS

\* the check made after the last strip
FrameEndStatus(index, frame_data, frame_length) ==
    IF index # frame_data + frame_length THEN ERROR_INVALID_DATA ELSE SUCCESS

\* the return after the strip loop ended in state f
FrameDone(f, frame_data, frame_length) ==
    IF f.r # "RUN" THEN f
    ELSE [f EXCEPT !.r = FrameEndStatus(f.data_index, frame_data, frame_length)]

\* variant: a frame without strips takes the strip loop and the end check
FrameBodyNoFastPath(dat, index, none) ==
    IF read_i16(dat, index + 8) > DECODER_MAX_STRIPS
    THEN [none EXCEPT !.data_index = index + 10, !.r = ERROR_INVALID_DATA]
    ELSE FrameDone(StripLoop(read_i8(dat, index) % 2 = 0,
                             0, read_i16(dat, index + 8),
                             [none EXCEPT !.data_index = index + 10]),
                   index, read_i24(dat, index + 1))

\* the frame once its header was accepted; none is the state at the call
FrameBody(dat, index, none) ==
    IF read_i16(dat, index + 8) > DECODER_MAX_STRIPS
    THEN [none EXCEPT !.data_index = index + 10, !.r = ERROR_INVALID_DATA]
    ELSE IF read_i16(dat, index + 8) = 0
    THEN [none EXCEPT !.data_index = index + 10, !.r = SUCCESS]
    ELSE FrameDone(StripLoop(read_i8(dat, index) % 2 = 0,
                             0, read_i16(dat, index + 8),
                             [none EXCEPT !.data_index = index + 10]),
                   index, read_i24(dat, index + 1))

\* variant: the frame is parsed without asking whether data is left
FrameFromNoEof(dat, index, none) ==
    IF FrameHeaderStatus(dat, index) # SUCCESS
    THEN [none EXCEPT !.r = FrameHeaderStatus(dat, index)]
    ELSE FrameBody(dat, index, none)

\* history: once 10 bytes are known to remain the dimensions are read, and
\* if they are accepted the flags, the strip count and the length
FrameHeaderRead(dat, index, none) ==
    IF decoder_data_remaining(index, Len(dat)) < 10 THEN none
    ELSE IF read_i16(dat, index + 4) # DECODER_WIDTH
            \/ read_i16(dat, index + 6) # DECODER_HEIGHT
    THEN [none EXCEPT !.d = Reading(@, index + 4, 4, index, index + 10)]
    ELSE [none EXCEPT !.d = Reading(Reading(@, index + 4, 6, index, index + 10),
                                    index + 0, 4, index, index + 10)]

\* Returns [d, data_index, r, failed].
FrameFrom(dat, index, none) ==
    IF ~decoder_has_next_frame(index, Len(dat)) THEN [none EXCEPT !.r = ERROR_EOF]
    ELSE IF FrameHeaderStatus(dat, index) # SUCCESS
    THEN [FrameHeaderRead(dat, index, none)
             EXCEPT !.r = FrameHeaderStatus(dat, index)]
    ELSE FrameBody(dat, index, FrameHeaderRead(dat, index, none))

\* (the frame header is read from the input as the call finds it)
decoder_compute_frame(d, index) ==
    FrameFrom(d.data, index,
              [d |-> d, data_index |-> index, r |-> "RUN", failed |-> -1])

----------------------------------------------------------------------------
(* The decoder's operations                                                *)

\* the history of a call that has stored nothing
NoHistory ==
    [cells |-> {}, fb_hi |-> -1, cb_hi |-> -1, accepted |-> {}, intra |-> {},
     strip_at |-> -1, chunk_at |-> -1, chunks |-> <<>>,
     begun |-> {}, reads |-> {}]

\* the decoder as a call finds it, in a process whose memory is laid out as ub
Entering(S, fb, dat, ub) ==
    [strips |-> S, framebuffer |-> fb, data |-> dat, ub |-> ub, fault |-> FALSE,
     past |-> {},
     cells |-> {}, fb_hi |-> -1, cb_hi |-> -1, accepted |-> {}, intra |-> {},
     strip_at |-> -1, chunk_at |-> -1, chunks |-> <<>>,
     begun |-> {}, reads |-> {}]

\* What `last` keeps of a call: the operation, its result, the decoder and
\* the input as the call found them (cursor0, strips0, framebuffer0, data0),
\* the strip that failed,
\* whether an earlier call since decoder_initialize returned ERROR_EOF
\* (eof0), how many earlier calls since then returned SUCCESS (done0), and the history d of its stores: the raster cells painted
\* (cells), the highest framebuffer index and codebook entry index stored to
\* (fb_hi, cb_hi), the bounds of the strips accepted and of the strips
\* painted by an intra vector chunk (accepted, intra), the offsets of the
\* last strip header and chunk header whose length field was read
\* (strip_at, chunk_at; -1 if none), the chunks dispatched, in order
\* (chunks), the strips whose chunk loop was entered (begun), and the reads
\* of the input (reads).
Record(op, r, cursor0, S0, fb0, dat0, eof0, done0, failed, d) ==
    [op |-> op, r |-> r, cursor0 |-> cursor0, strips0 |-> S0,
     framebuffer0 |-> fb0, data0 |-> dat0, eof0 |-> eof0, done0 |-> done0, failed |-> failed,
     cells |-> d.cells, fb_hi |-> d.fb_hi, cb_hi |-> d.cb_hi,
     accepted |-> d.accepted, intra |-> d.intra,
     strip_at |-> d.strip_at, chunk_at |-> d.chunk_at, chunks |-> d.chunks,
     begun |-> d.begun, reads |-> d.reads]

Fresh ==
    Record("initialize", "NONE", 0, <<>>, <<>>, <<>>, FALSE, 0, -1, NoHistory)

\* some call of decoder_compute_frame since decoder_initialize returned ERROR_EOF
EofSeen == last.eof0 \/ (last.op = "compute_frame" /\ last.r = ERROR_EOF)

\* the calls of decoder_compute_frame since decoder_initialize that returned
\* SUCCESS
Decoded ==
    last.done0 + IF last.op = "compute_frame" /\ last.r = SUCCESS THEN 1 ELSE 0

\* "hung": the call never returns; "faulted": the process stopped at a store
RunAfter(r) == IF r = HANG THEN "hung" ELSE IF r = FAULT THEN "faulted" ELSE "ready"

\* the result of decoder_has_next_frame as kept in `last`
Bool(b) == IF b THEN "true" ELSE "false"

\* memset(strips, 0), memset(framebuffer, 0), data_index = 0
decoder_initialize(inp) ==
    /\ data' = inp
    /\ data_index' = 0
    /\ strips' = <<>>
    /\ framebuffer' = <<>>
    /\ run' = "ready"
    /\ last' = Fresh

HasNextFrame ==
    /\ run = "ready"
    /\ last' = Record("has_next_frame",
                      Bool(decoder_has_next_frame(data_index, Len(data))),
                      data_index, strips, framebuffer, data, EofSeen, Decoded,
                      -1, NoHistory)
    /\ UNCHANGED <<data, data_index, strips, framebuffer, run>>

\* the decoder and the input buffer after a call of decoder_compute_frame
\* that ended as res
Commit(res) ==
    /\ data' = res.d.data
    /\ data_index' = res.data_index
    /\ strips' = res.d.strips
    /\ framebuffer' = res.d.framebuffer
    /\ run' = RunAfter(res.r)
    /\ last' = Record("compute_frame", res.r, data_index, strips, framebuffer,
                      data, EofSeen, Decoded, res.failed, res.d)

ComputeFrame(ub) ==
    /\ run = "ready"
    /\ Commit(decoder_compute_frame(Entering(strips, framebuffer, data, ub),
                                    data_index))

----------------------------------------------------------------------------
(* Inputs.  The byte streams the decoder is run on are built from frames,  *)
(* strips and chunks with the fields of the bitstream format.              *)

U16(n) == <<n \div 256, n % 256>>
U24(n) == <<n \div 65536, (n \div 256) % 256, n % 256>>
U32(high, low) == U16(high) \o U16(low)
Fill(b, n) == [i \in 1..n |-> b]

Chunk(tag, length, payload) == U16(tag) \o U16(length) \o payload
Strip(tag, length, top, left, bottom, right, body) ==
    U16(tag) \o U16(length) \o U16(top) \o U16(left) \o U16(bottom)
        \o U16(right) \o body
Frame(flags, length, width, height, count, body) ==
    <<flags>> \o U24(length) \o U16(width) \o U16(height) \o U16(count) \o body

\* with the lengths the format asks for
WChunk(tag, payload) == Chunk(tag, 4 + Len(payload), payload)
WStrip(top, left, bottom, right, body) ==
    Strip(4096, 12 + Len(body), top, left, bottom, right, body)
WFrame(flags, count, body) ==
    Frame(flags, 10 + Len(body), DECODER_WIDTH, DECODER_HEIGHT, count, body)

\* codebook payloads
EntryA == <<200, 100, 50, 25, 0, 0>>
EntryB == <<10, 20, 30, 40, 16, 240>>
EntryC == <<128, 64, 32, 16>>

\* an intra frame of one 8x4 strip (two cells): a V4 table of two 12bpp
\* entries, a V1 table of one 8bpp entry, and a mixed vector chunk painting
\* the first cell via V4 and the second via V1
FrameKey ==
    WFrame(1, 1, WStrip(0, 0, 4, 8,
        WChunk(8192, EntryA \o EntryB) \o WChunk(9728, EntryC)
        \o WChunk(12288, U32(32768, 0) \o <<0, 1, 1, 0>> \o <<0>>)))

\* an inter frame of one 4x8 strip (two cells): codes 10 (V1, index 0) and 0
\* (bit 30 of the word, set, is not reached by two cells)
FrameInter ==
    WFrame(0, 1, WStrip(0, 0, 8, 4, WChunk(12544, U32(32768, 2) \o <<0>>)))

\* an inter frame of one 4x8 strip: codes 0 (skip) and 11 (V4)
FrameInter2 ==
    WFrame(0, 1, WStrip(0, 0, 8, 4,
        WChunk(12544, U32(24576, 0) \o <<1, 0, 0, 1>>)))

\* frames without strips: the declared length is 10, or 12 with two bytes
\* after the header
FrameEmpty == WFrame(1, 0, <<>>)
FrameEmptyLong == WFrame(1, 0, <<0, 0>>)

\* frames of another size: one with a declared length and a strip count
\* that would be rejected too, one whose other fields are good
FrameSmall == Frame(1, 3, 160, DECODER_HEIGHT, 40, <<>>)
FrameTall == Frame(0, 10, DECODER_WIDTH, 480, 0, <<>>)

\* an inter frame of two strips, the second continuing the first (top = 0)
\* and painting with the V1 table it inherits
FrameTwo ==
    WFrame(0, 2,
        WStrip(0, 0, 4, 4, WChunk(8704, EntryB) \o WChunk(12800, <<0>>))
        \o WStrip(0, 0, 4, 4, WChunk(12800, <<0>>)))

\* an intra frame whose second strip carries a chunk with an unknown tag
FrameBadTag ==
    WFrame(1, 2,
        WStrip(0, 0, 4, 4, WChunk(12800, <<0>>))
        \o WStrip(4, 0, 8, 4, WChunk(16384, <<>>)))

\* an intra frame whose first strip has a bound that is no multiple of 4
FrameBadBounds ==
    WFrame(1, 2,
        WStrip(0, 0, 4, 6, WChunk(12800, <<0>>))
        \o WStrip(4, 0, 8, 4, WChunk(12800, <<0>>)))

\* selective V4 updates: mask 1000.. and its one entry; the same followed by
\* a second entry; an all-zero mask followed by four more bytes
FrameSelOne ==
    WFrame(1, 1, WStrip(0, 0, 4, 4, WChunk(8448, U32(32768, 0) \o EntryA)))
FrameSelMore ==
    WFrame(1, 1, WStrip(0, 0, 4, 4,
        WChunk(8448, U32(32768, 0) \o EntryA \o EntryB)))
FrameSelZero ==
    WFrame(1, 1, WStrip(0, 0, 4, 4, WChunk(8448, U32(0, 0) \o U32(0, 0))))

\* a selective V4 update with mask 0100.. and the one entry of its 1 bit
FrameSelSkip ==
    WFrame(1, 1, WStrip(0, 0, 4, 4, WChunk(8448, U32(16384, 0) \o EntryB)))

\* an intra frame of two strips: the first is 240 rows high, the second
\* continues it (top = 0) by 4 rows and paints its one cell
FrameBelow ==
    WFrame(1, 2,
        WStrip(0, 0, DECODER_HEIGHT, 4, <<>>)
        \o WStrip(0, 0, 4, 4, WChunk(12800, <<0>>)))

\* an intra frame of two strips: the first is 240 rows high, the second
\* continues it (top = 0) by 4 rows, loads one V1 entry and paints its two
\* cells with it.  Its last two bytes, at offsets 46 and 47, are the index
\* bytes of the two cells.
FrameBelowTwo ==
    WFrame(1, 2,
        WStrip(0, 0, DECODER_HEIGHT, 4, <<>>)
        \o WStrip(0, 0, 4, 8, WChunk(9728, EntryC) \o WChunk(12800, <<0, 0>>)))

\* an intra frame like FrameBelow with a third strip, which paints one more
\* cell from its V1 table four rows further down
FrameBelowFar ==
    WFrame(1, 3,
        WStrip(0, 0, DECODER_HEIGHT, 4, <<>>)
        \o WStrip(0, 0, 4, 4, WChunk(12800, <<0>>))
        \o WStrip(0, 0, 4, 4, WChunk(12800, <<0>>)))

\* an intra frame whose one strip is the whole raster and has no chunk
FrameBare == WFrame(1, 1, WStrip(0, 0, DECODER_HEIGHT, DECODER_WIDTH, <<>>))

\* an intra frame whose strip 0 loads a V1 table of DECODER_MAX_ENTRIES + 1
\* 8bpp entries and then carries a chunk with an unknown tag
FrameOver ==
    WFrame(1, 1, WStrip(0, 0, 4, 4,
        WChunk(9728, Fill(8, 4 * (DECODER_MAX_ENTRIES + 1)))
        \o WChunk(16384, <<>>)))

\* an intra frame whose strip 0 loads a V4 table of DECODER_MAX_ENTRIES + 1
\* 8bpp entries
FrameSpill ==
    WFrame(1, 1, WStrip(0, 0, 4, 4,
        WChunk(9216, Fill(8, 4 * (DECODER_MAX_ENTRIES + 1)))))

\* an inter frame of one strip of 33 cells that loads one V4 and one V1 entry
\* and carries two inter vector chunks: in the first, 31 cells are skipped,
\* the code 10 of cell 31 has its second bit in the second word, and cell 32
\* has code 11; in the second, 32 cells are skipped and the code 10 of cell
\* 32 starts the second word
FrameInterWide ==
    WFrame(0, 1, WStrip(0, 0, 4, 132,
        WChunk(8192, EntryA) \o WChunk(8704, EntryB)
        \o WChunk(12544, U32(0, 1) \o U32(24576, 0) \o <<0>> \o <<0, 0, 0, 0>>)
        \o WChunk(12544, U32(0, 0) \o U32(32768, 0) \o <<0>>)))

\* an intra frame of one strip of 33 cells with three intra vector chunks: a
\* mixed one of two masks (cells 31 and 32 via V4), a uniform one, and a
\* mixed one with one byte more than its cells take
MixedWide ==
    U32(0, 1) \o Fill(0, 31) \o <<0, 0, 0, 0>> \o U32(32768, 0) \o <<0, 0, 0, 0>>
FrameIntraWide ==
    WFrame(1, 1, WStrip(0, 0, 4, 132,
        WChunk(12288, MixedWide) \o WChunk(12800, Fill(0, 33))
        \o WChunk(12288, MixedWide \o <<0>>)))

\* intra frames of one 4x4 strip whose vector chunk is one byte short or
\* long: a mixed chunk of a mask alone, a mixed chunk of a mask and two
\* bytes, a uniform chunk without payload, a uniform chunk of two bytes
FrameMixedShort == WFrame(1, 1, WStrip(0, 0, 4, 4, WChunk(12288, U32(0, 0))))
FrameMixedLong ==
    WFrame(1, 1, WStrip(0, 0, 4, 4, WChunk(12288, U32(0, 0) \o <<0, 0>>)))
FrameUniformShort == WFrame(1, 1, WStrip(0, 0, 4, 4, WChunk(12800, <<>>)))
FrameUniformLong == WFrame(1, 1, WStrip(0, 0, 4, 4, WChunk(12800, <<0, 0>>)))

\* an inter frame of one 4x4 strip whose inter vector chunk has 2 bytes of
\* payload, less than an instruction word
FrameInterShort == WFrame(0, 1, WStrip(0, 0, 4, 4, WChunk(12544, <<0, 0>>)))

\* the frames that streams are composed of
Frames ==
    {FrameKey, FrameInter, FrameInter2, FrameEmpty, FrameEmptyLong, FrameSmall,
     FrameTwo, FrameBadTag, FrameBadBounds, FrameSelOne, FrameSelMore,
     FrameSelZero, FrameSelSkip}

\* the longest stream composed, in frames
MaxFrames == 2

RECURSIVE Streams(_)
Streams(n) ==
    IF n = 0 THEN {<<>>}
    ELSE LET shorter == Streams(n - 1)
         IN  shorter \cup {s \o f : s \in shorter, f \in Frames}

\* an intra frame declaring more strips than DECODER_MAX_STRIPS
FrameCrowded ==
    Frame(1, 10, DECODER_WIDTH, DECODER_HEIGHT, DECODER_MAX_STRIPS + 1, <<>>)

\* declared lengths that do not fit: a frame length below 10, a strip length
\* below 12 or beyond the input, a chunk length below 4 or beyond the strip
FrameShort == Frame(1, 3, DECODER_WIDTH, DECODER_HEIGHT, 0, <<>>)
FrameStripShort == WFrame(1, 1, Strip(4096, 8, 0, 0, 4, 4, <<>>))
FrameStripLong == WFrame(1, 1, Strip(4096, 100, 0, 0, 4, 4, <<>>))
FrameChunkShort == WFrame(1, 1, WStrip(0, 0, 4, 4, Chunk(12800, 3, <<0>>)))
FrameChunkLong == WFrame(1, 1, WStrip(0, 0, 4, 4, Chunk(12800, 9, <<0>>)))

\* streams run once each: cut short, oversized, or large
Singles ==
    {SubSeq(FrameKey, 1, 9), SubSeq(FrameKey, 1, Len(FrameKey) - 1),
     FrameTall, FrameCrowded, FrameBare, FrameOver, FrameKey \o FrameOver,
     FrameShort, FrameStripShort, FrameStripLong, FrameChunkShort,
     FrameChunkLong, FrameKey \o FrameChunkShort, FrameSpill,
     FrameInterWide, FrameIntraWide, FrameMixedShort, FrameMixedLong,
     FrameUniformShort, FrameUniformLong, FrameInterShort \o FrameEmpty,
     FrameBelow, FrameBelow \o FrameKey,
     FrameBelowTwo \o FrameKey, FrameBelowFar}

Inputs == Streams(MaxFrames) \cup Singles

----------------------------------------------------------------------------
(* The state machine                                                       *)

Init ==
    /\ data \in Inputs
    /\ data_index = 0
    /\ strips = <<>>
    /\ framebuffer = <<>>
    /\ run = "ready"
    /\ last = Fresh

\* a decoder is initialized again, on the same stream (unless a store has
\* changed it) or on one of Singles
Initialize ==
    \E inp \in ({data} \cap Inputs) \cup Singles : decoder_initialize(inp)

\* the words past the end of the object, by their offset from it, that the
\* call of decoder_compute_frame made in this state stores to under ub
PastOf(ub) ==
    decoder_compute_frame(Entering(strips, framebuffer, data, ub), data_index).d.past

\* The distances from the object to the input buffer, in words, at which a
\* store of the call falls on the buffer.  Up to its first store on the
\* buffer a call runs as it does under Free, so these are the distances at
\* which a store of the call under Free falls on it; at every other
\* distance the call does what it does under Free.
PlacesAt ==
    {p \in {o - k : o \in PastOf(Free), k \in 0..(BufferWords(data) - 1)} : p >= 0}

\* The layouts with ub's place of the buffer that differ in the memory that
\* is not mapped.  A call stops at its first store to a word that is not
\* mapped, and up to there it runs as it does under ub: either every word
\* it stores to is mapped, or one of the words it stores to under ub is the
\* first that is not.
StopsAt(ub) ==
    {ub} \cup {Layout({<<o, o + 1>>}, ub.buf, ub.big) :
                  o \in {q \in PastOf(ub) :
                            ub.buf < 0 \/ q < ub.buf
                                \/ q >= ub.buf + BufferWords(data)}}

\* the layouts that the call made in this state can tell from one another
LayoutsAt ==
    UNION {StopsAt(ub) :
              ub \in {Free} \cup {Layout({}, p, b) : p \in PlacesAt, b \in BOOLEAN}}

Compute == \E ub \in LayoutsAt : ComputeFrame(ub)

Next == Initialize \/ HasNextFrame \/ Compute

Spec == Init /\ [][Next]_vars

----------------------------------------------------------------------------
(* Properties.  `last` describes the most recent call; the state variables *)
(* are the decoder after it.                                               *)

\* the statuses of decoder_status_t
Statuses ==
    {SUCCESS, ERROR_EOF, ERROR_INVALID_DATA, ERROR_BAD_DIMENSIONS, ERROR_INTERNAL}

\* the most recent call was decoder_compute_frame
Computed == last.op = "compute_frame"

\* the input as the most recent call found it
Input == IF last.op = "initialize" THEN data ELSE last.data0

\* the most recent call left cursor, strip records and raster as it found them
Untouched ==
    /\ data_index = last.cursor0
    /\ strips = last.strips0
    /\ framebuffer = last.framebuffer0

\* the frame the most recent call of decoder_compute_frame was made at
FrameFlags == read_i8(Input, last.cursor0)
FrameLength == read_i24(Input, last.cursor0 + 1)
FrameWidth == read_i16(Input, last.cursor0 + 4)
FrameHeight == read_i16(Input, last.cursor0 + 6)
FrameStrips == read_i16(Input, last.cursor0 + 8)

\* the stream has the frame f at the cursor the most recent call started at
FrameWas(f) ==
    /\ last.cursor0 + Len(f) <= Len(data)
    /\ SubSeq(Input, last.cursor0 + 1, last.cursor0 + Len(f)) = f

\* the 4x4 cells of the raster, by the framebuffer index of their corner
RasterRows == 0..(DECODER_HEIGHT \div 4 - 1)
RasterCols == 0..(DECODER_WIDTH \div 4 - 1)
CellIndex(cy, cx) == 4 * cy * DECODER_WIDTH + 4 * cx

\* the cell (cy, cx) is inside the rectangle of the bounds b
InRect(b, cy, cx) ==
    b[2] <= 4 * cx /\ 4 * cx < b[3] /\ b[4] <= 4 * cy /\ 4 * cy < b[5]

\* C1: every call of compute_frame returns: no loop of the decoder goes on
\* for ever, the entry loop of the Codebook Updater on a selective payload
\* with 0 bits in its masks included.
C1_ComputeFrameReturns == run # "hung"

\* C2: every codebook slot the Codebook Updater stores into has an entry
\* index in 0..255, so no store lands outside the 256-entry target table.
C2_EntryIndexInTable == last.cb_hi < DECODER_MAX_ENTRIES

\* C3: the bounds of every strip whose header was accepted are, after the
\* coordinate continuation, multiples of 4 with left < right <= 320 and
\* top < bottom <= 240, and every raster index written is below 320 * 240.
C3_BoundsAfterContinuation ==
    /\ \A b \in last.accepted :
          /\ b[2] % 4 = 0 /\ b[3] % 4 = 0 /\ b[4] % 4 = 0 /\ b[5] % 4 = 0
          /\ b[2] < b[3] /\ b[3] <= DECODER_WIDTH
          /\ b[4] < b[5] /\ b[5] <= DECODER_HEIGHT
    /\ last.fb_hi < DECODER_PIXELS

\* C4: when compute_frame returns Success, the cursor after the call is the
\* cursor before it plus the frame length declared in the frame header,
\* frames of zero strips included.
C4_CursorAdvanceIsFrameLength ==
    (Computed /\ last.r = SUCCESS) => data_index = last.cursor0 + FrameLength

\* C5: the cursor never exceeds the input length; has_next_frame returns
\* false iff the cursor equals the input length, and changes nothing.
C5_CursorWithinInput ==
    /\ data_index <= Len(data)
    /\ last.op = "has_next_frame" =>
          /\ last.r = "false" <=> data_index = Len(data)
          /\ Untouched

C5_Witness ==
    /\ last.op = "has_next_frame"
    /\ last.r = "false"
    /\ data_index = Len(data)
    /\ framebuffer # <<>>

\* C6 (as stated): when compute_frame returns Success for an intra-coded
\* frame whose strips' rectangles together cover the raster, every raster
\* pixel was written during the call.
C6_IntraFullCoverage ==
    (/\ Computed /\ last.r = SUCCESS
     /\ FrameFlags % 2 = 1
     /\ \A cy \in RasterRows, cx \in RasterCols :
           \E b \in last.accepted : InRect(b, cy, cx))
    => \A cy \in RasterRows, cx \in RasterCols : CellIndex(cy, cx) \in last.cells

\* C6 (amended): when compute_frame returns Success for an intra-coded frame,
\* every raster pixel inside the rectangle of a strip that carried an intra
\* vector chunk was written during the call.
C6_IntraStripsPainted ==
    (Computed /\ last.r = SUCCESS /\ FrameFlags % 2 = 1)
    => \A b \in last.intra :
          \A cy \in RasterRows, cx \in RasterCols :
             InRect(b, cy, cx) => CellIndex(cy, cx) \in last.cells

C6_Witness ==
    /\ Computed /\ last.r = SUCCESS
    /\ FrameFlags % 2 = 1
    /\ \E b \in last.intra : b[3] - b[2] >= 8
    /\ Cardinality(last.cells) >= 2

\* C7: compute_frame never returns Internal: the instruction code of the
\* inter decoder is always 0, 2 or 3 and the length check of the strip
\* parser always passes.
C7_NeverInternal == last.r # ERROR_INTERNAL

C7_Witness ==
    /\ Computed /\ last.r = SUCCESS
    /\ FrameWas(FrameInter2)
    /\ last.cells = {CellIndex(1, 0)}

\* C8: called with the cursor at or past the input length, compute_frame
\* returns Eof and leaves cursor, strip records and raster unchanged; once
\* Eof was returned every later compute_frame call returns Eof.
C8_EofAbsorbing ==
    Computed =>
       /\ last.cursor0 >= Len(data) => (last.r = ERROR_EOF /\ Untouched)
       /\ last.eof0 => last.r = ERROR_EOF

C8_Witness ==
    /\ Computed /\ last.r = ERROR_EOF
    /\ last.eof0
    /\ strips # <<>> /\ framebuffer # <<>>

\* the start of strip k of the frame at offset frame: the frame header and
\* the declared lengths of the strips before k
RECURSIVE StripStart(_, _, _)
StripStart(dat, frame, k) ==
    IF k = 0 THEN frame + 10
    ELSE LET p == StripStart(dat, frame, k - 1)
         IN  p + read_i16(dat, p + 2)

\* C9: if strip k of a frame fails, compute_frame returns its status, no
\* strip after k is parsed or has its record modified, and the cursor is at
\* the start of strip k.
C9_StripFailureAborts ==
    (Computed /\ last.failed >= 0 /\ last.r \in Statuses) =>
       /\ last.r # SUCCESS
       /\ data_index = StripStart(Input, last.cursor0, last.failed)
       /\ \A b \in last.accepted : b[1] <= last.failed
       /\ \A a \in DOMAIN strips \cup DOMAIN last.strips0 :
             a >= StripBase(last.failed + 1) => Get(strips, a) = Get(last.strips0, a)

\* C10: with at least 10 bytes at the cursor and a frame header declaring a
\* width other than 320 or a height other than 240, compute_frame returns
\* BadDimensions whatever the declared length and strip count, and cursor,
\* strip records and raster are unchanged.
C10_BadDimensions ==
    (/\ Computed
     /\ Len(data) - last.cursor0 >= 10
     /\ FrameWidth # DECODER_WIDTH \/ FrameHeight # DECODER_HEIGHT)
    => (last.r = ERROR_BAD_DIMENSIONS /\ Untouched)

C10_Witness ==
    /\ Computed /\ last.r = ERROR_BAD_DIMENSIONS
    /\ FrameLength < 10 /\ FrameStrips > DECODER_MAX_STRIPS
    /\ strips # <<>> /\ framebuffer # <<>>

\* C11: a frame with the decoder's dimensions, a declared length of at least
\* 10 and a strip count of 0 decodes to Success with the raster and every
\* strip record unchanged.
C11_ZeroStripFrame ==
    (/\ Computed
     /\ Len(data) - last.cursor0 >= 10
     /\ FrameWidth = DECODER_WIDTH /\ FrameHeight = DECODER_HEIGHT
     /\ FrameLength >= 10
     /\ FrameStrips = 0)
    => /\ last.r = SUCCESS
       /\ strips = last.strips0
       /\ framebuffer = last.framebuffer0

C11_Witness ==
    /\ Computed /\ last.r = SUCCESS
    /\ FrameStrips = 0 /\ FrameLength > 10
    /\ data_index = last.cursor0 + 10
    /\ strips # <<>> /\ framebuffer # <<>>

\* the strip and the chunk whose header the most recent call read last
StripLengthField == read_i16(Input, last.strip_at + 2)
ChunkLengthField == read_i16(Input, last.chunk_at + 2)

\* C12: a declared length below the header's own size (frame < 10 with the
\* decoder's dimensions, strip < 12, chunk < 4), a strip length beyond the
\* remaining input or a chunk length beyond the remaining strip bytes makes
\* compute_frame return InvalidData, never Success.
C12_ShortLengthsInvalid ==
    Computed =>
       /\ (/\ Len(data) - last.cursor0 >= 10
           /\ FrameWidth = DECODER_WIDTH /\ FrameHeight = DECODER_HEIGHT
           /\ FrameLength < 10)
          => last.r = ERROR_INVALID_DATA
       /\ (/\ last.strip_at >= 0 /\ last.chunk_at < last.strip_at
           /\ StripLengthField < 12 \/ StripLengthField > Len(data) - last.strip_at)
          => last.r = ERROR_INVALID_DATA
       /\ (/\ last.chunk_at > last.strip_at
           /\ \/ ChunkLengthField < 4
              \/ last.chunk_at + ChunkLengthField > last.strip_at + StripLengthField)
          => last.r = ERROR_INVALID_DATA

C12_Witness ==
    /\ Computed /\ last.r = ERROR_INVALID_DATA
    /\ last.chunk_at > last.strip_at
    /\ ChunkLengthField < 4
    /\ data_index = last.strip_at
    /\ framebuffer # <<>>

\* the chunks the most recent call dispatched
Chunks == {last.chunks[i] : i \in DOMAIN last.chunks}

\* what the tag of a codebook chunk c selects
IsCodebook(c) == c.id \in CodebookTags
IsSelective(c) == TagBit(c.id, 256)
Is12bpp(c) == ~TagBit(c.id, 1024)
TableOf(c) == IF TagBit(c.id, 512) THEN V1Base(c.si) ELSE V4Base(c.si)

\* the payload of the chunk c: its offset and its length
PayloadAt(c) == c.at + 4
PayloadLen(c) == c.len - 4

\* the 1 bits of a mask, and the number of them before bit j
Ones(mask) == {k \in 0..31 : MaskBit(mask, k) = 1}
Rank(mask, j) == Cardinality({k \in Ones(mask) : k < j})

\* a selective payload of one mask followed by the entries of its 1 bits
OneMask(c) ==
    /\ IsCodebook(c) /\ IsSelective(c)
    /\ PayloadLen(c) >= 4
    /\ PayloadLen(c) =
          4 + Cardinality(Ones(read_i32(Input, PayloadAt(c)))) * EntryBytes(Is12bpp(c))

\* slot j of the table of c after the chunk, as the mask of c asks for it
SlotAsAsked(c, mask, j) ==
    Entry(c.S1, TableOf(c), j) =
       IF j \in Ones(mask)
       THEN CodebookEntry(Input,
               PayloadAt(c) + 4 + Rank(mask, j) * EntryBytes(Is12bpp(c)), Is12bpp(c))
       ELSE Entry(c.S0, TableOf(c), j)

\* C13: in a selective codebook update a 0 bit of the mask leaves its slot
\* as it was and consumes no payload, a 1 bit decodes the next entry into
\* its own slot: after the chunk exactly the slots of the 1 bits hold the
\* new values and every other slot is unchanged.
C13_SelectiveUpdate ==
    \A c \in Chunks :
       OneMask(c) =>
          /\ c.r \in Statuses
          /\ \A j \in 0..(DECODER_MAX_ENTRIES - 1) :
                SlotAsAsked(c, read_i32(Input, PayloadAt(c)), j)

\* the 1 bits of the mask come first: no 0 bit is met before the last entry
OnesFirst(mask) == \A k \in Ones(mask) : \A j \in 0..k : j \in Ones(mask)

\* C14: a selective chunk in which every 1 bit of the mask is followed by its
\* complete entry and whose payload ends right after the last entry returns
\* Success: the end-of-payload check reports InvalidData only for a 1 bit
\* whose entry is not in the payload.  (Stated for masks that need no skip.)
C14_SelectiveEndCheck ==
    \A c \in Chunks :
       (OneMask(c) /\ OnesFirst(read_i32(Input, PayloadAt(c)))) => c.r = SUCCESS

\* the uniform intra vector chunks (0x3200) that ended with success, and the
\* cells of the raster such a chunk c painted: cell k of the walk of its
\* strip is painted via V1 with the index byte k of the payload
UniformChunks == {c \in Chunks : c.id = 12800 /\ c.r = SUCCESS}
CellsOf(c) ==
    {k \in 0..(GridCells(Grid(c.S0, c.si)) - 1) :
        CellY(Grid(c.S0, c.si), k) < DECODER_HEIGHT}
V1EntryOf(c, k) == Entry(c.S0, V1Base(c.si), read_i8(Input, PayloadAt(c) + k))
PixelOf(c, k, o) ==
    Get(c.fb1, (CellY(Grid(c.S0, c.si), k) + o[1]) * DECODER_WIDTH
               + CellX(Grid(c.S0, c.si), k) + o[2])

\* C15 (as stated): a V1 paint of a cell with index byte b sets all 16
\* pixels of the cell to the first colour c0 of V1 entry b.
C15_V1PaintFlat ==
    \A c \in UniformChunks : \A k \in CellsOf(c) : \A o \in CellOffsets :
       PixelOf(c, k, o) = V1EntryOf(c, k)[0]

\* C15 (amended): a V1 paint of a cell with index byte b sets each 2x2
\* quadrant of the cell to one colour of V1 entry b: c0 top left, c1 top
\* right, c2 bottom left, c3 bottom right.
C15_V1PaintQuadrants ==
    \A c \in UniformChunks : \A k \in CellsOf(c) : \A o \in CellOffsets :
       PixelOf(c, k, o) = V1EntryOf(c, k)[2 * (o[1] \div 2) + (o[2] \div 2)]

C15_Witness ==
    \E c \in UniformChunks : \E k \in CellsOf(c) :
       /\ Cardinality({V1EntryOf(c, k)[q] : q \in 0..3}) = 4
       /\ PixelOf(c, k, <<3, 3>>) = V1EntryOf(c, k)[3]
       /\ PixelOf(c, k, <<0, 0>>) = V1EntryOf(c, k)[0]

\* the two codebooks of strips[si] in the strips memory S, by word offset
\* from the start of the strip record
Tables(S, si) ==
    LET inside == {a \in DOMAIN S :
                     a >= StripBase(si) + BoundWords /\ a < StripBase(si + 1)}
    IN  [w \in {a - StripBase(si) : a \in inside} |-> S[w + StripBase(si)]]

\* the frame of the most recent call is inter-coded
FrameIsInter == Len(data) > last.cursor0 /\ FrameFlags % 2 = 0

\* C16: at the start of a strip's chunk processing, strip i > 0 of an
\* inter-coded frame has both tables equal to those of strip i - 1 as they
\* stand then; strip 0 of any frame and every strip of an intra-coded frame
\* has its own tables as it had them before: nothing is reset or copied.
C16_CodebookCarryOver ==
    \A b \in last.begun :
       /\ (FrameIsInter /\ b.si > 0)
          => Tables(b.S, b.si) = Tables(b.S_in, b.si - 1)
       /\ ~(FrameIsInter /\ b.si > 0)
          => Tables(b.S, b.si) = Tables(b.S_in, b.si)
       /\ b.si = 0 => Tables(b.S, 0) = Tables(last.strips0, 0)

C16_Witness ==
    /\ FrameIsInter
    /\ \E b \in last.begun :
          /\ b.si = 1
          /\ DOMAIN Tables(b.S, 1) # {}
          /\ Tables(b.S_in, 1) # Tables(b.S, 1)
    /\ \E b \in last.begun : b.si = 0 /\ DOMAIN Tables(b.S, 0) # {}

\* the bounds fields of the header of strip k of the frame of the most recent
\* call, as encoded
DecodedTop(k) == read_i16(Input, StripStart(Input, last.cursor0, k) + 4)
DecodedLeft(k) == read_i16(Input, StripStart(Input, last.cursor0, k) + 6)
DecodedBottom(k) == read_i16(Input, StripStart(Input, last.cursor0, k) + 8)
DecodedRight(k) == read_i16(Input, StripStart(Input, last.cursor0, k) + 10)

\* the strip t continues the strip before it
Continues(t) == t[1] > 0 /\ DecodedTop(t[1]) = 0

\* C17: a strip i > 0 whose decoded top is 0 is stored with top = the
\* stored bottom of strip i - 1 and bottom = that plus its decoded bottom;
\* strip 0 and strips with another top are stored as decoded; left and
\* right are always stored as decoded.
C17_CoordinateContinuation ==
    \A t \in last.accepted :
       /\ t[2] = DecodedLeft(t[1]) /\ t[3] = DecodedRight(t[1])
       /\ Continues(t) =>
             \E p \in last.accepted :
                /\ p[1] = t[1] - 1
                /\ t[4] = p[5]
                /\ t[5] = p[5] + DecodedBottom(t[1])
       /\ ~Continues(t) =>
             /\ t[4] = DecodedTop(t[1])
             /\ t[5] = DecodedBottom(t[1])

C17_Witness ==
    /\ \E t \in last.accepted :
          /\ Continues(t) /\ t[4] > 0 /\ t[5] > t[4]
    /\ \E t \in last.accepted : t[1] = 0 /\ t[4] = 0

\* the strips memories S0 and S1 agree outside the table at codebook
SameOutside(S0, S1, codebook) ==
    \A a \in DOMAIN S0 \cup DOMAIN S1 :
       (a < codebook \/ a >= codebook + EntryWords * DECODER_MAX_ENTRIES)
          => Get(S0, a) = Get(S1, a)

\* the entries of a codebook chunk c that is not selective: their size in the
\* payload, and entry k as the payload gives it
EntrySize(c) == IF Is12bpp(c) THEN 6 ELSE 4
EntriesIn(c) ==
    IF PayloadLen(c) \div EntrySize(c) > DECODER_MAX_ENTRIES
    THEN DECODER_MAX_ENTRIES ELSE PayloadLen(c) \div EntrySize(c)
EntryGiven(c, k) ==
    CodebookEntry(Input, PayloadAt(c) + EntrySize(c) * k, Is12bpp(c))

VectorTags == {12288, 12544, 12800}

\* C18: whatever the frame and the strip tag, a chunk with a tag in
\* 0x2000..0x2700 changes nothing but the table bit 0x0200 selects (V1 if
\* set, V4 if not), reading entries of 4 bytes iff bit 0x0400 is set and
\* all of them iff bit 0x0100 is clear; a chunk 0x3000, 0x3100 or 0x3200
\* leaves the strip records as they are; any other tag gives InvalidData.
C18_ChunkDispatch ==
    \A c \in Chunks :
       /\ IsCodebook(c) =>
             /\ SameOutside(c.S0, c.S1, TableOf(c))
             /\ c.fb1 = c.fb0
             /\ (~IsSelective(c) /\ c.r = SUCCESS) =>
                   \A k \in 0..(EntriesIn(c) - 1) :
                      Entry(c.S1, TableOf(c), k) = EntryGiven(c, k)
       /\ c.id \in VectorTags => c.S1 = c.S0
       /\ c.id \notin CodebookTags \cup VectorTags =>
             /\ c.r = ERROR_INVALID_DATA
             /\ c.S1 = c.S0 /\ c.fb1 = c.fb0

\* bit j, counted from the most significant one, of the big-endian 32-bit
\* word at offset p of the input (0 beyond the input)
WordBit(p, j) ==
    IF p + 4 > Len(data) THEN 0 ELSE MaskBit(read_i32(Input, p), j)

\* the byte at offset p of the input (0 beyond the input)
ByteAt(p) == IF p >= Len(data) THEN 0 ELSE read_i8(Input, p)

\* a payload of inter vectors read as C19 describes, for cells k..n-1: pos
\* is the payload position, used the number of instruction bits taken so
\* far, word the position of the word they are taken from.  The result
\* gives for each cell its code (0, 2 for 10, 3 for 11) and the position
\* of its index bytes, and the position after the last cell.
RECURSIVE InterCodes(_, _, _, _, _, _)
InterCodes(n, k, pos, used, word, acc) ==
    IF k >= n THEN [cells |-> acc, end |-> pos]
    ELSE LET w1 == IF used % 32 = 0 THEN pos ELSE word
             p1 == IF used % 32 = 0 THEN pos + 4 ELSE pos
             w2 == IF (used + 1) % 32 = 0 THEN p1 ELSE w1
             p2 == IF (used + 1) % 32 = 0 THEN p1 + 4 ELSE p1
         IN  IF WordBit(w1, used % 32) = 0
             THEN InterCodes(n, k + 1, p1, used + 1, w1,
                             Append(acc, [code |-> 0, at |-> p1]))
             ELSE IF WordBit(w2, (used + 1) % 32) = 0
             THEN InterCodes(n, k + 1, p2 + 1, used + 2, w2,
                             Append(acc, [code |-> 2, at |-> p2]))
             ELSE InterCodes(n, k + 1, p2 + 4, used + 2, w2,
                             Append(acc, [code |-> 3, at |-> p2]))

\* the inter vector chunks (0x3100) that ended with success, and the reading
\* of the payload of such a chunk c
InterChunks == {c \in Chunks : c.id = 12544 /\ c.r = SUCCESS}
InterRead(c) ==
    InterCodes(GridCells(Grid(c.S0, c.si)), 0, PayloadAt(c), 0, 0, <<>>)

\* pixel o of cell k before the chunk c, and as a paint via V1 or via V4 with
\* the index bytes at offset p makes it
PixelWas(c, k, o) ==
    Get(c.fb0, (CellY(Grid(c.S0, c.si), k) + o[1]) * DECODER_WIDTH
               + CellX(Grid(c.S0, c.si), k) + o[2])
PixelV1(c, p, o) ==
    Entry(c.S0, V1Base(c.si), ByteAt(p))[2 * (o[1] \div 2) + (o[2] \div 2)]
PixelV4(c, p, o) ==
    Entry(c.S0, V4Base(c.si),
          ByteAt(p + 2 * (o[1] \div 2) + (o[2] \div 2)))[2 * (o[1] % 2) + (o[2] % 2)]

\* the chunk c left cell k as the code t of the cell asks
CellAsCoded(c, k, t) ==
    \A o \in CellOffsets :
       PixelOf(c, k, o) = IF t.code = 0 THEN PixelWas(c, k, o)
                          ELSE IF t.code = 2 THEN PixelV1(c, t.at, o)
                          ELSE PixelV4(c, t.at, o)

\* the chunk c did what the reading rd of its payload asks
InterAsRead(c, rd) ==
    /\ rd.end = PayloadAt(c) + PayloadLen(c)
    /\ \A k \in CellsOf(c) : CellAsCoded(c, k, rd.cells[k + 1])

\* C19: an inter vector chunk takes its instruction bits MSB-first from
\* big-endian 32-bit words, a word being read at the current payload
\* position whenever 32 bits were used (also between the two bits of a
\* code); code 0 leaves the cell as it was and takes no byte, 10 paints it
\* via V1 with 1 byte, 11 via V4 with 4 bytes; the chunk succeeds only if
\* what was consumed ends at the declared end of the payload.
C19_InterVectors == \A c \in InterChunks : InterAsRead(c, InterRead(c))

C19_Witness ==
    \E c \in InterChunks :
       /\ GridCells(Grid(c.S0, c.si)) = 33
       /\ InterRead(c).cells[32] = [code |-> 2, at |-> PayloadAt(c) + 8]
       /\ InterRead(c).cells[33] = [code |-> 3, at |-> PayloadAt(c) + 9]
       /\ InterRead(c).cells[31].code = 0
       /\ PixelOf(c, 31, <<0, 0>>) # PixelWas(c, 31, <<0, 0>>)
       /\ PixelOf(c, 32, <<0, 0>>) # PixelWas(c, 32, <<0, 0>>)

\* the intra vector chunks, and the number of cells of the strip of one
IntraChunks == {c \in Chunks : c.id \in {12288, 12800}}
CellCount(c) == GridCells(Grid(c.S0, c.si))

\* the bytes the cells k..n-1 of a mixed payload take (4 for a selector bit
\* of 1, else 1), the cells running on across rows: pos is the payload
\* position, word the position of the selector word of the cell
RECURSIVE MixedCosts(_, _, _, _, _)
MixedCosts(n, k, pos, word, acc) ==
    IF k >= n THEN acc
    ELSE LET w == IF k % 32 = 0 THEN pos ELSE word
             p == IF k % 32 = 0 THEN pos + 4 ELSE pos
             b == IF WordBit(w, k % 32) = 1 THEN 4 ELSE 1
         IN  MixedCosts(n, k + 1, p + b, w, Append(acc, b))

RECURSIVE SumSeq(_)
SumSeq(q) == IF q = <<>> THEN 0 ELSE q[1] + SumSeq(Tail(q))

\* the payload length with which the chunk c is complete
IntraNeeded(c) ==
    IF c.id = 12800 THEN CellCount(c)
    ELSE 4 * ((CellCount(c) + 31) \div 32)
         + SumSeq(MixedCosts(CellCount(c), 0, PayloadAt(c), 0, <<>>))

\* C20: an intra vector chunk over a strip of N cells returns Success iff its
\* payload length is 4 * ceil(N / 32) + the sum over the cells of 4 (selector
\* bit 1) or 1 (selector bit 0) when mixed (0x3000), N when uniform
\* (0x3200); with any other payload length it returns InvalidData.
C20_IntraPayloadLength ==
    \A c \in IntraChunks :
       IF PayloadLen(c) = IntraNeeded(c) THEN c.r = SUCCESS
       ELSE c.r = ERROR_INVALID_DATA

\* the same for the chunks of strips that lie within the raster (holds)
IntraLengthWithinRaster ==
    \A c \in IntraChunks :
       StripY1(c.S0, c.si) <= DECODER_HEIGHT =>
          IF PayloadLen(c) = IntraNeeded(c) THEN c.r = SUCCESS
          ELSE c.r = ERROR_INVALID_DATA

IntraLengthSeen ==
    /\ \E c \in IntraChunks : c.id = 12288 /\ CellCount(c) = 33 /\ c.r = SUCCESS
                                /\ PayloadLen(c) = 47
    /\ \E c \in IntraChunks : c.id = 12288 /\ PayloadLen(c) = 48

\* C22: every input byte that compute_frame or a sub-decoder reads is at an
\* offset below the input length, and inside the unit being parsed: the 10
\* checked bytes of the frame header, the strip (its 12 checked header
\* bytes for the length field the frame parser reads), the 4 checked bytes
\* of a chunk header inside the strip, the payload of the chunk.
C22_ReadsWithinUnit ==
    \A t \in last.reads :
       /\ t[1] >= 0 /\ t[1] < t[2] /\ t[2] <= Len(data)
       /\ t[3] <= t[1] /\ t[2] <= t[4]
       /\ t[4] <= Len(data)

C22_Witness ==
    /\ Computed /\ last.r = ERROR_INVALID_DATA
    /\ \E t \in last.reads : t[2] = Len(data) /\ t[4] = Len(data)
    /\ \E t \in last.reads : t[1] = last.cursor0 /\ t[4] = last.cursor0 + 10
    /\ \E t \in last.reads : t[1] = last.chunk_at /\ t[2] = last.chunk_at + 4
    /\ Cardinality(last.reads) >= 8

-----------------------------------------------------------------------------
(* The driver loop of the test harness, after decoder_initialize on the    *)
(* input:                                                                  *)
(*   i = 0;                                                                *)
(*   while (decoder_has_next_frame(&decoder)) {                            *)
(*     r = decoder_compute_frame(&decoder);                                *)
(*     if (r != SUCCESS) die(...);                                         *)
(*     if (i % OUT_INTERVAL == 0) { <write the raster to a file, die(...)  *)
(*                                   if that fails> }                      *)
(*     i++; }                                                              *)
(* die() ends the process by exit(1).  (The player has the loop without    *)
(* the file; it is built without DECODER_VALIDATE, which this model does   *)
(* not cover.)                                                             *)

OUT_INTERVAL == 30

\* where the driver is: at the loop condition (on entry, and at the end of
\* the body), at the call that opens the body, at the output of the raster
\* (after a Success, i being the number of frames decoded before it), out
\* of the loop, or stopped: in a call that does not return, or exited
DriverAt ==
    IF run # "ready" THEN "stopped"
    ELSE IF last.op \in {"initialize", "write_framebuffer"} THEN "condition"
    ELSE IF last.op = "compute_frame" /\ last.r = SUCCESS
    THEN IF last.done0 % OUT_INTERVAL = 0 THEN "output" ELSE "condition"
    ELSE IF last.op = "has_next_frame" /\ last.r = "true" THEN "body"
    ELSE "left"

DriverAsk == DriverAt = "condition" /\ HasNextFrame

DriverDecode == DriverAt = "body" /\ Compute

\* asprintf and write_framebuffer: the file is written, or one of the calls
\* fails (no memory, no directory test-out, a full disk) and die() exits
DriverWrite ==
    /\ DriverAt = "output"
    /\ \E written \in BOOLEAN :
          /\ run' = IF written THEN "ready" ELSE "exited"
          /\ last' = Record("write_framebuffer", Bool(written), data_index,
                            strips, framebuffer, data, EofSeen, Decoded, -1,
                            NoHistory)
    /\ UNCHANGED <<data, data_index, strips, framebuffer>>

\* the program goes on as long as it has a statement to execute
DriverSpec ==
    /\ Init
    /\ [][DriverAsk \/ DriverDecode \/ DriverWrite]_vars
    /\ WF_vars(DriverAsk \/ DriverDecode \/ DriverWrite)

\* the loop was left: by its condition, or with a status other than Success
LeftByCondition == last.op = "has_next_frame" /\ last.r = "false"
LeftByStatus == Computed /\ last.r \in Statuses \ {SUCCESS}

\* the cursor does not decrease in a call of compute_frame, a call that
\* returns Success moves it by 10 at least, and no call of the loop returns
\* Eof; the successful calls are at most ceil(input length / 10)
DriverSteady ==
    /\ Computed =>
          /\ data_index >= last.cursor0
          /\ last.r = SUCCESS => data_index >= last.cursor0 + 10
          /\ last.r # ERROR_EOF
    /\ Decoded <= (Len(data) + 9) \div 10

\* C23: across the calls of the driver loop the cursor never decreases and
\* a Success moves it by 10 or more, so the loop makes at most ceil(input
\* length / 10) successful decodes, never gets Eof, and when it is neither
\* at the loop condition nor in the loop body it has ended: with the cursor
\* at the input length, or with a status other than Success.
C23_DriverLoopEnds ==
    /\ DriverSteady
    /\ DriverAt \notin {"condition", "body", "output"} =>
          \/ LeftByCondition /\ data_index = Len(data)
          \/ LeftByStatus

\* the same, but for the calls that never return or stop the process, and
\* for the exit of the harness when the raster cannot be written (holds)
DriverEndsUnlessStopped ==
    /\ DriverSteady
    /\ DriverAt \notin {"condition", "body", "output"} =>
          \/ LeftByCondition /\ data_index = Len(data)
          \/ LeftByStatus
          \/ run \in {"hung", "faulted", "exited"}

\* a stream of two frames was decoded to its end
DriverSeen ==
    /\ LeftByCondition /\ data_index = Len(data) /\ Decoded = 2

-----------------------------------------------------------------------------
(* The colour converter on its own: a luma is drawn, and one step converts *)
(* it with a chroma u and every chroma v.  The step is recorded in last.   *)

\* the values of a uint8_t and of an int8_t
Luma == 0..255
Chroma == -128..127

ColourInit ==
    /\ data \in {<<y>> : y \in Luma}
    /\ data_index = 0
    /\ strips = <<>>
    /\ framebuffer = <<>>
    /\ run = "ready"
    /\ last = [op |-> "none"]

ColourConvert ==
    /\ run = "ready"
    /\ \E u \in Chroma :
          last' = [op |-> "yuv_to_bgr555", y |-> read_i8(data, 0), u |-> u,
                   r |-> [v \in Chroma |-> yuv_to_bgr555(read_i8(data, 0), u, v)]]
    /\ run' = "converted"
    /\ UNCHANGED <<data, data_index, strips, framebuffer>>

ColourSpec == ColourInit /\ [][ColourConvert]_vars

\* the most recent step was a conversion
Converted == last.op = "yuv_to_bgr555"

\* x / 2 truncating toward zero, and the clamp to [0, 255]
HalfTowardZero(x) == IF x >= 0 THEN x \div 2 ELSE -((-x) \div 2)
Clamped(x) == IF x < 0 THEN 0 ELSE IF x > 255 THEN 255 ELSE x

\* the channel sums of C21 before the clamp, and the 5-bit channels
RedSum(y, u, v) == y + 2 * v
GreenSum(y, u, v) == y - HalfTowardZero(u) - v
BlueSum(y, u, v) == y + 2 * u
Channel(x) == Clamped(x) \div 8

\* the sums and the packed value fit a signed 16-bit integer
Fits16(x) == x >= -32768 /\ x <= 32767

\* the conversion of (y, u, v) gave r as C21 says
AsConverted(y, u, v, r) ==
    /\ r = Channel(BlueSum(y, u, v)) * 1024 + Channel(GreenSum(y, u, v)) * 32
             + Channel(RedSum(y, u, v))
    /\ r >= 0 /\ r < 32768
    /\ Fits16(RedSum(y, u, v)) /\ Fits16(GreenSum(y, u, v))
    /\ Fits16(BlueSum(y, u, v)) /\ Fits16(2 * u) /\ Fits16(2 * v)
    /\ (u = 0 /\ v = 0) =>
          r = (y \div 8) * 1024 + (y \div 8) * 32 + (y \div 8)

\* C21: for every luma y in 0..255 and chroma u, v in -128..127 the colour
\* is (B << 10) | (G << 5) | R with R = clamp(y + 2v) >> 3, G = clamp(y -
\* trunc(u / 2) - v) >> 3, B = clamp(y + 2u) >> 3; it is below 2^15, no
\* intermediate value leaves 16 bits, and with u = v = 0 the three channels
\* are y >> 3.
C21_ColourConverter ==
    Converted => \A v \in Chroma : AsConverted(last.y, last.u, v, last.r[v])

C21_Witness ==
    /\ Converted
    /\ last.y = 100 /\ last.u = -3
    /\ last.r[-128] = 11 * 1024 + 28 * 32 + 0
    /\ last.r[127] = 11 * 1024 + 0 * 32 + 31

=============================================================================
